---- MODULE Spec2Model ----
(***************************************************************************)
(* Model of the AQI forecaster web service (app.py).                       *)
(*                                                                         *)
(* One request to /api/data is a process that walks through                *)
(* get_sensor_data: argument parsing, the weather fetch, the ground        *)
(* air-quality fetch, the satellite fetch, the 6-hour forecast (model      *)
(* rollout or constant fallback) and the assembly of the JSON response.    *)
(*                                                                         *)
(* Three specifications:                                                   *)
(*   Spec          one request, from its arguments to its response;        *)
(*   SpecConc      two requests in their rollouts, interleaved;            *)
(*   SpecClassify  get_aqi_level applied to one input.                     *)
(*                                                                         *)
(* Units.  PM2.5 concentrations are integers counting thousandths of a     *)
(* microgram per cubic metre, so that round(x, 2) is a real conversion.    *)
(* Instants are minutes counted from Monday 00:00, modulo one week:        *)
(* hour, weekday and the "%H:%M" rendering are all functions of that.      *)
(***************************************************************************)
EXTENDS Integers, Sequences, FiniteSets, TLC

VARIABLES
    model,             \* module-level `model`: None or the loaded regressor
    clock,             \* the wall clock read by datetime.now()
    ticks,             \* how many times the clock has advanced (bounded)
    pc,                \* position of each request in get_sensor_data
    weather_data,      \* local weather_data (a dict)
    pm25_value,        \* local pm25_value
    location_name,     \* local location_name
    tempo_data,        \* local tempo_data
    now,               \* local now (line 188)
    current_features,  \* the working feature vectors, by storage slot
    forecast_results,  \* local forecast_results
    response,          \* what the request returned
    calls,             \* history: the feature vector handed to each model.predict
    raws,              \* history: the raw value each model.predict returned
    raised,            \* history: the step whose model.predict raised (0: none)
    cls_in,            \* argument handed to get_aqi_level
    cls_out            \* its result

vars == << model, clock, ticks, pc, weather_data, pm25_value, location_name,
           tempo_data, now, current_features, forecast_results, response,
           calls, raws, raised, cls_in, cls_out >>

-----------------------------------------------------------------------------
(* Bounds and program constants *)

\* how many times the wall clock may cross a minute boundary during a run
MaxTicks == 2

\* get_aqi_level is exercised on every concentration from -MinTenths to
\* MaxTenths tenths of a microgram
MinTenths == 20
MaxTenths == 3010

\* range(6): the forecast horizon
HORIZON == 6

\* Python's None, for the module-level model
None == "None"

\* an optional number: Null is Python's None, Some(v) the number v
Null == << >>
Some(v) == << v >>

Reqs == {"r1", "r2"}

MINUTES_PER_DAY == 24 * 60
MINUTES_PER_WEEK == 7 * MINUTES_PER_DAY

\* Monday 00:00, and Sunday 22:59 (the horizon crosses midnight and the week)
StartTimes == {0, 6 * MINUTES_PER_DAY + 22 * 60 + 59}

-----------------------------------------------------------------------------
(* Pure helpers *)

\* max(0, x)
Max0(x) == IF x < 0 THEN 0 ELSE x

\* round(x, 2) on thousandths: the nearest hundredth.  A value half-way
\* between two hundredths goes to the even one, as round() does for a value
\* the float holds exactly; the inputs drawn below avoid such values.
Round2(x) ==
    LET q == x \div 10
        r == x % 10
    IN  IF r < 5 THEN q * 10
        ELSE IF r > 5 THEN (q + 1) * 10
        ELSE IF q % 2 = 0 THEN q * 10 ELSE (q + 1) * 10

\* datetime + timedelta(hours=h)
AddHours(t, h) == (t + 60 * h) % MINUTES_PER_WEEK

\* datetime.hour
HourOf(t) == (t \div 60) % 24

\* datetime.weekday(): Monday is 0
WeekdayOf(t) == (t \div MINUTES_PER_DAY) % 7

\* strftime("%H:%M"): the date is dropped
Strftime(t) == << HourOf(t), t % 60 >>

\* dict.get(key, default)
DictGet(d, k, default) == IF k \in DOMAIN d THEN d[k] ELSE default

\* get_aqi_level with the bounds taken upper-exclusive (< for <=)
get_aqi_level_exclusive(pm25) ==
    IF pm25 = Null \/ pm25[1] < 0 THEN [level |-> "Unknown", color |-> "#aaaaaa"]
    ELSE IF pm25[1] < 12000 THEN [level |-> "Good", color |-> "#00e400"]
    ELSE IF pm25[1] < 35400 THEN [level |-> "Moderate", color |-> "#ffff00"]
    ELSE IF pm25[1] < 55400
        THEN [level |-> "Unhealthy for Sensitive Groups", color |-> "#ff7e00"]
    ELSE IF pm25[1] < 150400 THEN [level |-> "Unhealthy", color |-> "#ff0000"]
    ELSE IF pm25[1] < 250400 THEN [level |-> "Very Unhealthy", color |-> "#8f3f97"]
    ELSE [level |-> "Hazardous", color |-> "#7e0023"]

\* get_aqi_level: the category and colour of a PM2.5 value (an optional
\* number, in thousandths)
get_aqi_level(pm25) ==
    IF pm25 = Null \/ pm25[1] < 0 THEN [level |-> "Unknown", color |-> "#aaaaaa"]
    ELSE IF pm25[1] <= 12000 THEN [level |-> "Good", color |-> "#00e400"]
    ELSE IF pm25[1] <= 35400 THEN [level |-> "Moderate", color |-> "#ffff00"]
    ELSE IF pm25[1] <= 55400
        THEN [level |-> "Unhealthy for Sensitive Groups", color |-> "#ff7e00"]
    ELSE IF pm25[1] <= 150400 THEN [level |-> "Unhealthy", color |-> "#ff0000"]
    ELSE IF pm25[1] <= 250400 THEN [level |-> "Very Unhealthy", color |-> "#8f3f97"]
    ELSE [level |-> "Hazardous", color |-> "#7e0023"]

-----------------------------------------------------------------------------
(* The regressor and the data the upstream services may answer with *)

\* The regressors the service may have loaded.  The trained forest is an
\* opaque deterministic function of the seven features; three stand-ins:
\*   "inc"  predicts pm25 + 1.0
\*   "dec"  predicts pm25 - 4.5 (extrapolates below zero)
\*   "mix"  reads every feature and yields values off the hundredths grid
Models == {"inc", "dec", "mix"}

\* model.predict(current_features)[0]
Predict(m, f) ==
    CASE m = "inc" -> f.pm25 + 1000
      [] m = "dec" -> f.pm25 - 4500
      [] m = "mix" -> (f.pm25 * 9) \div 10 + 37 * f.temperature_2m
                      - 3 * f.relative_humidity_2m + 11 * f.wind_speed_10m
                      + f.wind_direction_10m + 101 * f.hour
                      - 53 * f.day_of_week

\* weather_response.json()['current']: all four keys, or some missing
WeatherReadings ==
    { [temperature_2m |-> 31, relative_humidity_2m |-> 40,
       wind_speed_10m |-> 12, wind_direction_10m |-> 270],
      [temperature_2m |-> 7] }

\* waqi_data['iaqi']['pm25']['v']: what a station may report
GroundReadings == {-1000, 10000, 12346}

\* ds[...].item(): a tropospheric NO2 column, in units of 1e-6
TempoReadings == {21}

\* pm25_value = 25.0, location_name = "Regional Estimate"
DefaultPm25 == 25 * 1000
DefaultLocation == "Regional Estimate"

NoFeatures == [pm25 |-> 0, temperature_2m |-> 0, relative_humidity_2m |-> 0,
               wind_speed_10m |-> 0, wind_direction_10m |-> 0,
               hour |-> 0, day_of_week |-> 0]

NoResponse == [status |-> 0]

\* get_aqi_level has not returned yet
Unclassified == [level |-> "", color |-> ""]

-----------------------------------------------------------------------------
(* Storage of the working feature vector *)

\* the feature vector kept in one module-level variable, shared by requests
SharedFeatureSlot(p) == "r1"

\* current_features is a local of get_sensor_data: one per request
FeatureSlot(p) == p

-----------------------------------------------------------------------------
(* Initial states *)

\* nothing fetched yet: lines 139-140 set the defaults
InitFetched ==
    /\ weather_data = [p \in Reqs |-> [k \in {} |-> 0]]
    /\ pm25_value = [p \in Reqs |-> DefaultPm25]
    /\ location_name = [p \in Reqs |-> DefaultLocation]
    /\ tempo_data = [p \in Reqs |-> [status |-> "", value |-> Null]]

\* no forecast step taken yet (line 185), nothing returned
InitLocals ==
    /\ now = [p \in Reqs |-> 0]
    /\ current_features = [p \in Reqs |-> NoFeatures]
    /\ forecast_results = [p \in Reqs |-> << >>]
    /\ response = [p \in Reqs |-> NoResponse]
    /\ calls = [p \in Reqs |-> << >>]
    /\ raws = [p \in Reqs |-> << >>]
    /\ raised = [p \in Reqs |-> 0]
    /\ cls_out = Unclassified

\* the process has started (the model is loaded or not) and one request
\* has arrived
Init ==
    /\ model \in Models \cup {None}
    /\ clock \in StartTimes
    /\ ticks = 0
    /\ pc = [p \in Reqs |-> IF p = "r1" THEN "args" ELSE "idle"]
    /\ InitFetched
    /\ InitLocals
    /\ cls_in = Null

-----------------------------------------------------------------------------
(* The wall clock *)

\* time passes: the clock crosses a minute boundary, at any point of a request
Tick ==
    /\ ticks < MaxTicks
    /\ clock' = (clock + 1) % MINUTES_PER_WEEK
    /\ ticks' = ticks + 1
    /\ UNCHANGED << model, pc, weather_data, pm25_value, location_name,
                    tempo_data, now, current_features, forecast_results,
                    response, calls, raws, raised, cls_in, cls_out >>

-----------------------------------------------------------------------------
(* get_sensor_data, step by step *)

\* lines 121-125: lat and lon parse as floats
ParseArgsOk(p) ==
    /\ pc[p] = "args"
    /\ pc' = [pc EXCEPT ![p] = "weather"]
    /\ UNCHANGED << model, clock, ticks, weather_data, pm25_value,
                    location_name, tempo_data, now, current_features,
                    forecast_results, response, calls, raws, raised,
                    cls_in, cls_out >>

\* lines 121-125: lat or lon is missing or malformed: 400
ParseArgsBad(p) ==
    /\ pc[p] = "args"
    /\ response' = [response EXCEPT ![p] =
           [status |-> 400, error |-> "Invalid or missing lat/lon parameters"]]
    /\ pc' = [pc EXCEPT ![p] = "done"]
    /\ UNCHANGED << model, clock, ticks, weather_data, pm25_value,
                    location_name, tempo_data, now, current_features,
                    forecast_results, calls, raws, raised, cls_in, cls_out >>

\* lines 128-133: the weather service answers
FetchWeatherOk(p) ==
    /\ pc[p] = "weather"
    /\ \E w \in WeatherReadings :
           weather_data' = [weather_data EXCEPT ![p] = w]
    /\ pc' = [pc EXCEPT ![p] = "ground"]
    /\ UNCHANGED << model, clock, ticks, pm25_value, location_name,
                    tempo_data, now, current_features, forecast_results,
                    response, calls, raws, raised, cls_in, cls_out >>

\* lines 134-136: the weather fetch raises: the request ends with a 500
FetchWeatherFail(p) ==
    /\ pc[p] = "weather"
    /\ response' = [response EXCEPT ![p] =
           [status |-> 500, error |-> "Failed to fetch weather data"]]
    /\ pc' = [pc EXCEPT ![p] = "done"]
    /\ UNCHANGED << model, clock, ticks, weather_data, pm25_value,
                    location_name, tempo_data, now, current_features,
                    forecast_results, calls, raws, raised, cls_in, cls_out >>

\* lines 139-172: the station reports a PM2.5 value
FetchGroundOk(p) ==
    /\ pc[p] = "ground"
    /\ \E v \in GroundReadings :
           pm25_value' = [pm25_value EXCEPT ![p] = v]
    /\ location_name' = [location_name EXCEPT ![p] = "Station"]
    /\ pc' = [pc EXCEPT ![p] = "tempo"]
    /\ UNCHANGED << model, clock, ticks, weather_data, tempo_data, now,
                    current_features, forecast_results, response, calls,
                    raws, raised, cls_in, cls_out >>

\* lines 139-140, 173-179: the fetch raises, the status is not ok, or the
\* answer holds no pm25: the defaults of lines 139-140 stay
FetchGroundDefault(p) ==
    /\ pc[p] = "ground"
    /\ pc' = [pc EXCEPT ![p] = "tempo"]
    /\ UNCHANGED << model, clock, ticks, weather_data, pm25_value,
                    location_name, tempo_data, now, current_features,
                    forecast_results, response, calls, raws, raised,
                    cls_in, cls_out >>

\* get_tempo_data: what it returns
TempoResults ==
    { [status |-> "Auth Error", value |-> Null],
      [status |-> "No Data Available", value |-> Null],
      [status |-> "Simulated (Error)", value |-> Some(15)] }
    \cup { [status |-> "Real-Time", value |-> Some(v)] : v \in TempoReadings }

\* line 182: tempo_data = get_tempo_data(lat, lon), which never raises
FetchTempo(p) ==
    /\ pc[p] = "tempo"
    /\ \E t \in TempoResults :
           tempo_data' = [tempo_data EXCEPT ![p] = t]
    /\ pc' = [pc EXCEPT ![p] = "forecast"]
    /\ UNCHANGED << model, clock, ticks, weather_data, pm25_value,
                    location_name, now, current_features, forecast_results,
                    response, calls, raws, raised, cls_in, cls_out >>

\* lines 189-195: feature_data
feature_data(t, pm25, w) ==
    [pm25 |-> pm25,
     temperature_2m |-> DictGet(w, "temperature_2m", 18),
     relative_humidity_2m |-> DictGet(w, "relative_humidity_2m", 60),
     wind_speed_10m |-> DictGet(w, "wind_speed_10m", 5),
     wind_direction_10m |-> DictGet(w, "wind_direction_10m", 180),
     hour |-> HourOf(t),
     day_of_week |-> WeekdayOf(t)]

\* lines 185-197: a model is loaded: read the clock once, build the features
BeginRollout(p) ==
    /\ pc[p] = "forecast"
    /\ model # None
    /\ now' = [now EXCEPT ![p] = clock]
    /\ current_features' = [current_features EXCEPT ![FeatureSlot(p)] =
           feature_data(clock, pm25_value[p], weather_data[p])]
    /\ pc' = [pc EXCEPT ![p] = "predict"]
    /\ UNCHANGED << model, clock, ticks, weather_data, pm25_value,
                    location_name, tempo_data, forecast_results, response,
                    calls, raws, raised, cls_in, cls_out >>

\* lines 185-186, 212: no model: straight to the constant projection
SkipRollout(p) ==
    /\ pc[p] = "forecast"
    /\ model = None
    /\ pc' = [pc EXCEPT ![p] = "fallback"]
    /\ UNCHANGED << model, clock, ticks, weather_data, pm25_value,
                    location_name, tempo_data, now, current_features,
                    forecast_results, response, calls, raws, raised,
                    cls_in, cls_out >>

\* line 212: where the request goes once the try block of lines 187-210 is left
AfterRollout(fr) == IF fr = << >> THEN "fallback" ELSE "assemble"

\* the raw prediction fed back without the floor of line 201
FeedbackRaw(raw) == raw

\* line 206: the value fed back as the next step's pm25
Feedback(raw) == Max0(raw)

\* the next step's vector rebuilt with the weather defaults of lines 191-194
NextFeaturesRebuilt(f, prediction, forecast_time) ==
    [pm25 |-> prediction,
     temperature_2m |-> 18,
     relative_humidity_2m |-> 60,
     wind_speed_10m |-> 5,
     wind_direction_10m |-> 180,
     hour |-> HourOf(forecast_time),
     day_of_week |-> WeekdayOf(forecast_time)]

\* lines 206-208: the feature vector of the next step
NextFeatures(f, prediction, forecast_time) ==
    [f EXCEPT !.pm25 = prediction,
              !.hour = HourOf(forecast_time),
              !.day_of_week = WeekdayOf(forecast_time)]

\* lines 199-208: one iteration of the rollout; model.predict returns
PredictStep(p) ==
    /\ pc[p] = "predict"
    /\ LET i == Len(forecast_results[p])
           f == current_features[FeatureSlot(p)]
           raw == Predict(model, f)
           next_hour_prediction == Feedback(raw)
           forecast_time == AddHours(now[p], i + 1)
           fr == Append(forecast_results[p],
                        [hour |-> Strftime(forecast_time),
                         aqi |-> Round2(next_hour_prediction)])
       IN  /\ calls' = [calls EXCEPT ![p] = Append(@, f)]
           /\ raws' = [raws EXCEPT ![p] = Append(@, raw)]
           /\ forecast_results' = [forecast_results EXCEPT ![p] = fr]
           /\ current_features' = [current_features EXCEPT ![FeatureSlot(p)] =
                  NextFeatures(f, next_hour_prediction, forecast_time)]
           /\ pc' = [pc EXCEPT ![p] =
                  IF i + 1 = HORIZON THEN AfterRollout(fr) ELSE "predict"]
    /\ UNCHANGED << model, clock, ticks, weather_data, pm25_value,
                    location_name, tempo_data, now, response, raised,
                    cls_in, cls_out >>

\* lines 200, 209-210: model.predict raises: the exception is logged and the
\* loop is left with forecast_results as it stands
PredictRaise(p) ==
    /\ pc[p] = "predict"
    /\ raised' = [raised EXCEPT ![p] = Len(forecast_results[p]) + 1]
    /\ pc' = [pc EXCEPT ![p] = AfterRollout(forecast_results[p])]
    /\ UNCHANGED << model, clock, ticks, weather_data, pm25_value,
                    location_name, tempo_data, now, current_features,
                    forecast_results, response, calls, raws,
                    cls_in, cls_out >>

\* line 214: the instant a fallback step is stamped from
FallbackBase(p) == clock

\* lines 213-215: one iteration of the constant projection
FallbackStep(p) ==
    /\ pc[p] = "fallback"
    /\ LET i == Len(forecast_results[p])
           forecast_time == AddHours(FallbackBase(p), i + 1)
       IN  /\ forecast_results' = [forecast_results EXCEPT ![p] =
                  Append(@, [hour |-> Strftime(forecast_time),
                             aqi |-> Round2(pm25_value[p])])]
           /\ pc' = [pc EXCEPT ![p] =
                  IF i + 1 = HORIZON THEN "assemble" ELSE "fallback"]
    /\ UNCHANGED << model, clock, ticks, weather_data, pm25_value,
                    location_name, tempo_data, now, current_features,
                    response, calls, raws, raised, cls_in, cls_out >>

\* lines 218-223: response_data
response_data(p) ==
    [status |-> 200,
     ground_data |-> [location |-> location_name[p],
                      value |-> Round2(pm25_value[p]),
                      level_info |-> get_aqi_level(Some(pm25_value[p]))],
     weather_data |-> weather_data[p],
     satellite_data |-> tempo_data[p],
     forecast_data |-> forecast_results[p]]

\* lines 218-224: the response is assembled and returned
Respond(p) ==
    /\ pc[p] = "assemble"
    /\ response' = [response EXCEPT ![p] = response_data(p)]
    /\ pc' = [pc EXCEPT ![p] = "done"]
    /\ UNCHANGED << model, clock, ticks, weather_data, pm25_value,
                    location_name, tempo_data, now, current_features,
                    forecast_results, calls, raws, raised, cls_in, cls_out >>

Next ==
    \/ Tick
    \/ \E p \in Reqs :
        \/ ParseArgsOk(p)
        \/ ParseArgsBad(p)
        \/ FetchWeatherOk(p)
        \/ FetchWeatherFail(p)
        \/ FetchGroundOk(p)
        \/ FetchGroundDefault(p)
        \/ FetchTempo(p)
        \/ BeginRollout(p)
        \/ SkipRollout(p)
        \/ PredictStep(p)
        \/ PredictRaise(p)
        \/ FallbackStep(p)
        \/ Respond(p)

Spec == Init /\ [][Next]_vars

-----------------------------------------------------------------------------
(* What a finished request returned *)

Done(p) == pc[p] = "done"
Ok(p) == Done(p) /\ response[p].status = 200
Forecast(p) == response[p].forecast_data

\* the constant projection over the whole horizon
IsConstantProjection(fc, p) ==
    /\ Len(fc) = HORIZON
    /\ \A i \in 1..Len(fc) : fc[i].aqi = Round2(pm25_value[p])

\* the steps of fc are stamped t0 + 1h, t0 + 2h, ... for the one instant t0
StampedFrom(fc, t0) ==
    \A i \in 1..Len(fc) :
        fc[i].hour = << ((t0 \div 60) + i) % 24, t0 % 60 >>

\* the instants the clock has shown since the request arrived
RequestInstants ==
    { (clock + MINUTES_PER_WEEK - k) % MINUTES_PER_WEEK : k \in 0..ticks }

-----------------------------------------------------------------------------
(* Claims on one request (specification Spec) *)

\* C1: when model.predict raises at some step k of the rollout, the response
\* carries no partial result: its forecast is the constant projection over the
\* whole horizon.
C1_FullFailure ==
    \A p \in Reqs :
        (Ok(p) /\ raised[p] > 0) => IsConstantProjection(Forecast(p), p)

\* C2: whatever the model availability and the outcome of the predictions,
\* a returned forecast has exactly HORIZON steps.
C2_ExactlyHorizon ==
    \A p \in Reqs : Ok(p) => Len(Forecast(p)) = HORIZON

\* C3: no upstream source blocks the forecast: a request with valid
\* arguments always ends with a response that carries a forecast.
C3_SourceNeverBlocks ==
    \A p \in Reqs :
        (Done(p) /\ response[p].status # 400) =>
            /\ response[p].status = 200
            /\ Len(Forecast(p)) > 0

\* C4: every PM2.5 value of a returned forecast is >= 0, on the model path
\* and on the fallback path, whatever the ground reading.
C4_NonNegative ==
    \A p \in Reqs :
        Ok(p) => \A i \in 1..Len(Forecast(p)) : Forecast(p)[i].aqi >= 0

\* C5: the i-th step of a returned forecast is stamped t0 + i hours for one
\* instant t0 of the request, on both paths, even while the clock advances.
C5_SingleStartTime ==
    \A p \in Reqs :
        Ok(p) => \E t0 \in RequestInstants : StampedFrom(Forecast(p), t0)

\* C7: with no model loaded the model is never called, and the forecast is
\* HORIZON steps of the rounded ground value (the one reported as
\* ground_data.value), stamped one hour apart from the request time.
C7_FallbackPath ==
    \A p \in Reqs :
        (Ok(p) /\ model = None) =>
            /\ calls[p] = << >>
            /\ IsConstantProjection(Forecast(p), p)
            /\ \A i \in 1..Len(Forecast(p)) :
                   Forecast(p)[i].aqi = response[p].ground_data.value
            /\ \E t0 \in RequestInstants : StampedFrom(Forecast(p), t0)

\* C6: autoregressive feedback.  The first model call gets the snapshot; the
\* i-th (i >= 2) gets pm25 = max(0, raw) of call i-1 and the hour and weekday
\* of now + (i-1) hours.  With predict(f) = f.pm25 + 1, pm25 = 10 and hour = 0
\* the first three outputs are 11, 12, 13 at hours 1, 2, 3.
C6_AutoregressiveFeedback ==
    \A p \in Reqs :
        /\ Len(raws[p]) = Len(calls[p])
        /\ \A i \in 1..Len(calls[p]) :
               LET f == calls[p][i]
                   t == now[p] + 60 * (i - 1)
               IN  /\ f.pm25 = IF i = 1 THEN pm25_value[p]
                                ELSE IF raws[p][i - 1] < 0 THEN 0
                                ELSE raws[p][i - 1]
                   /\ f.hour = (t \div 60) % 24
                   /\ f.hour \in 0..23
                   /\ f.day_of_week = (t \div (24 * 60)) % 7
                   /\ f.day_of_week \in 0..6
                   /\ raws[p][i] = Predict(model, f)
        /\ ( /\ model = "inc"
             /\ Len(calls[p]) >= 3
             /\ calls[p][1].pm25 = 10000
             /\ calls[p][1].hour = 0 ) =>
               \A k \in 1..3 :
                   /\ forecast_results[p][k].aqi = 10000 + 1000 * k
                   /\ forecast_results[p][k].hour[1] = k

\* C6 witness: a full rollout of the stub from pm25 = 10 at hour 0
C6_Witness ==
    \E p \in Reqs :
        /\ model = "inc"
        /\ Len(calls[p]) = HORIZON
        /\ calls[p][1].pm25 = 10000
        /\ calls[p][1].hour = 0
        /\ forecast_results[p][3].aqi = 13000

\* C10: every rollout step leaves the four weather fields of the working
\* feature vector as they were in the snapshot.
C10_WeatherHeldConstant ==
    \A p \in Reqs :
        Len(calls[p]) > 0 =>
            LET f0 == calls[p][1]
                Same(f) ==
                    /\ f.temperature_2m = f0.temperature_2m
                    /\ f.relative_humidity_2m = f0.relative_humidity_2m
                    /\ f.wind_speed_10m = f0.wind_speed_10m
                    /\ f.wind_direction_10m = f0.wind_direction_10m
            IN  /\ f0.temperature_2m = DictGet(weather_data[p], "temperature_2m", 18)
                /\ f0.relative_humidity_2m =
                       DictGet(weather_data[p], "relative_humidity_2m", 60)
                /\ f0.wind_speed_10m = DictGet(weather_data[p], "wind_speed_10m", 5)
                /\ f0.wind_direction_10m =
                       DictGet(weather_data[p], "wind_direction_10m", 180)
                /\ \A i \in 1..Len(calls[p]) : Same(calls[p][i])
                /\ Same(current_features[p])

\* C10 witness: six model calls on a snapshot of measured weather, with the
\* pm25, hour and weekday of the last call different from the first
C10_Witness ==
    \E p \in Reqs :
        /\ Len(calls[p]) = HORIZON
        /\ calls[p][1].temperature_2m = 31
        /\ calls[p][1].wind_direction_10m = 270
        /\ calls[p][HORIZON].pm25 # calls[p][1].pm25
        /\ calls[p][HORIZON].hour # calls[p][1].hour
        /\ calls[p][HORIZON].day_of_week # calls[p][1].day_of_week

-----------------------------------------------------------------------------
(* get_aqi_level on its own (specification SpecClassify) *)

\* None, every tenth of a microgram from -MinTenths to MaxTenths, and the
\* thousandth just above each
ClassifierInputs ==
    {Null} \cup { Some(100 * t + d) : t \in (0 - MinTenths)..MaxTenths, d \in {0, 1} }

InitClassify ==
    /\ model \in Models \cup {None}
    /\ clock = 0
    /\ ticks = 0
    /\ pc = [p \in Reqs |-> "idle"]
    /\ InitFetched
    /\ InitLocals
    /\ cls_in \in ClassifierInputs

\* a caller evaluates get_aqi_level(cls_in)
Classify ==
    /\ cls_out = Unclassified
    /\ cls_out' = get_aqi_level(cls_in)
    /\ UNCHANGED << model, clock, ticks, pc, weather_data, pm25_value,
                    location_name, tempo_data, now, current_features,
                    forecast_results, response, calls, raws, raised, cls_in >>

NextClassify == Classify

SpecClassify == InitClassify /\ [][NextClassify]_vars

\* the level of the breakpoint table for a concentration x in thousandths
TableLevel(x) ==
    CASE x < 0 -> "Unknown"
      [] 0 <= x /\ x <= 12000 -> "Good"
      [] 12000 < x /\ x <= 35400 -> "Moderate"
      [] 35400 < x /\ x <= 55400 -> "Unhealthy for Sensitive Groups"
      [] 55400 < x /\ x <= 150400 -> "Unhealthy"
      [] 150400 < x /\ x <= 250400 -> "Very Unhealthy"
      [] x > 250400 -> "Hazardous"

\* the one colour of each level
TableColor ==
    [l \in {"Unknown", "Good", "Moderate", "Unhealthy for Sensitive Groups",
            "Unhealthy", "Very Unhealthy", "Hazardous"} |->
        CASE l = "Unknown" -> "#aaaaaa"
          [] l = "Good" -> "#00e400"
          [] l = "Moderate" -> "#ffff00"
          [] l = "Unhealthy for Sensitive Groups" -> "#ff7e00"
          [] l = "Unhealthy" -> "#ff0000"
          [] l = "Very Unhealthy" -> "#8f3f97"
          [] l = "Hazardous" -> "#7e0023"]

\* C8: get_aqi_level agrees with the breakpoint table on every input (None
\* and negatives are Unknown, bounds are upper-inclusive), pairs each level
\* with its one colour, and in particular classifies 12.0 as Good, 12.1 as
\* Moderate, -1 and None as Unknown, 300 as Hazardous.
C8_ClassifierTable ==
    cls_out # Unclassified =>
        /\ cls_out.level = IF cls_in = Null THEN "Unknown" ELSE TableLevel(cls_in[1])
        /\ cls_out.color = TableColor[cls_out.level]
        /\ cls_in = Some(12000) => cls_out.level = "Good"
        /\ cls_in = Some(12100) => cls_out.level = "Moderate"
        /\ cls_in = Some(-1000) => cls_out.level = "Unknown"
        /\ cls_in = Null => cls_out.level = "Unknown"
        /\ cls_in = Some(300000) => cls_out.level = "Hazardous"

\* C8 witness: 12.1 has been classified, as Moderate
C8_Witness ==
    /\ cls_in = Some(12100)
    /\ cls_out = [level |-> "Moderate", color |-> "#ffff00"]

-----------------------------------------------------------------------------
(* Two requests served at once (specification SpecConc) *)

\* Both requests have fetched their data (line 185 is next) and hold
\* different snapshots: the first a station's reading and the full weather,
\* the second the default reading and a partial weather answer.  The server's
\* threads interleave them step by step.
InitConc ==
    /\ model \in Models
    /\ clock \in StartTimes
    /\ ticks = 0
    /\ pc = [p \in Reqs |-> "forecast"]
    /\ InitLocals
    /\ cls_in = Null
    /\ location_name = [p \in Reqs |-> "Station"]
    /\ tempo_data = [p \in Reqs |-> [status |-> "No Data Available", value |-> Null]]
    /\ \E w1 \in WeatherReadings, w2 \in WeatherReadings :
           /\ DOMAIN w2 # DOMAIN w1
           /\ "wind_speed_10m" \in DOMAIN w1
           /\ weather_data = [p \in Reqs |-> IF p = "r1" THEN w1 ELSE w2]
    /\ \E v \in GroundReadings :
           pm25_value = [p \in Reqs |-> IF p = "r1" THEN v ELSE DefaultPm25]

\* the steps of two rollouts whose model.predict calls all return, and the
\* clock
NextConc ==
    \/ Tick
    \/ \E p \in Reqs :
        \/ BeginRollout(p)
        \/ PredictStep(p)
        \/ Respond(p)

SpecConc == InitConc /\ [][NextConc]_vars

\* what a rollout of n steps run alone yields from the snapshot f0 taken at
\* t0: its forecast steps, the feature vectors it hands to the model, and
\* the feature vector it is left with
RECURSIVE RolloutAlone(_, _, _, _)
RolloutAlone(m, f0, t0, n) ==
    IF n = 0 THEN [out |-> << >>, seen |-> << >>, feat |-> f0]
    ELSE LET prev == RolloutAlone(m, f0, t0, n - 1)
             raw == Predict(m, prev.feat)
             v == IF raw < 0 THEN 0 ELSE raw
             t == (t0 + 60 * n) % MINUTES_PER_WEEK
         IN  [out |-> Append(prev.out, [hour |-> << (t \div 60) % 24, t % 60 >>,
                                        aqi |-> Round2(v)]),
              seen |-> Append(prev.seen, prev.feat),
              feat |-> [prev.feat EXCEPT !.pm25 = v,
                                         !.hour = (t \div 60) % 24,
                                         !.day_of_week = (t \div MINUTES_PER_DAY) % 7]]

\* a request's forecast and model inputs are those of its rollout run alone
Isolated(p) ==
    LET alone == RolloutAlone(model,
                     feature_data(now[p], pm25_value[p], weather_data[p]),
                     now[p], Len(calls[p]))
    IN  /\ calls[p] = alone.seen
        /\ forecast_results[p] = alone.out
        /\ pc[p] = "done" => response[p].forecast_data = alone.out

\* C9: two rollouts interleaved step by step, sharing the model and starting
\* from distinct feature vectors, each produce what they would produce alone,
\* and no step writes the shared model.
C9_Isolation ==
    /\ [](\A p \in Reqs : pc[p] \in {"predict", "assemble", "done"} => Isolated(p))
    /\ [][model' = model]_vars

\* C9 witness: both rollouts are under way at once, each past its second
\* step, from different snapshots
C9_Witness ==
    /\ pc["r1"] = "predict" /\ pc["r2"] = "predict"
    /\ Len(calls["r1"]) >= 2 /\ Len(calls["r2"]) >= 2
    /\ calls["r1"][1] # calls["r2"][1]
    /\ calls["r1"][2] # calls["r2"][2]

====
